---- MODULE Spec2Model ----
(***************************************************************************)
(* rscheme: a tree-walking evaluator for a small Scheme (rscheme/src), and *)
(* the byte-tape interpreter (brainfuck/src).                              *)
(*                                                                         *)
(* The evaluator is a family of mutually recursive Rust functions, so it   *)
(* is modelled by mutually recursive operators.  Every operator that runs  *)
(* on an Interpreter takes that interpreter's environment and returns an   *)
(* outcome record                                                          *)
(*     [k, v, env, d, tr]                                                  *)
(* k   : "Ok" (Result::Ok), "Err" (Result::Err(EvalError)), "Panic" (the   *)
(*       process aborts: index out of bounds) or "Overflow" (host stack    *)
(*       exhausted)                                                        *)
(* v   : the Value, the error message, or the panic message                *)
(* env : the interpreter's environment after the call                      *)
(* d   : the deepest nesting of eval_node / eval_lambda activations the    *)
(*       call reached                                                      *)
(* tr  : the Nodes eval_node was called on, in call order                  *)
(***************************************************************************)
EXTENDS Integers, Sequences, FiniteSets, TLC

VARIABLES env, last

vars == <<env, last>>

(***************************************************************************)
(* Bounds of the model.                                                    *)
(***************************************************************************)
MaxStack == 40
MaxIter == 3
MaxArgs == 2
MaxScopes == 2

(***************************************************************************)
(* parser.rs: Node.  interpreter.rs: Value (with the NodeWrapper variant   *)
(* environment.rs constructs in if_fn).  A variant is a record of its tag  *)
(* t and its payload, in a field named after the payload's type: n an     *)
(* i32, q an f64, b a bool, s a String, l a Vec, w a Box.                  *)
(***************************************************************************)
Sym(s) == [s |-> s, t |-> "NSymbol"]
NList(ns) == [t |-> "NList", l |-> ns]
NInt(n) == [t |-> "NInt", n |-> n]
NFloat(q) == [t |-> "NFloat", q |-> q]
NBool(b) == [t |-> "NBool", b |-> b]
ValueWrapper(val) == [t |-> "NValueWrapper", w |-> val]

VInt(n) == [t |-> "Int", n |-> n]
VFloat(q) == [t |-> "Float", q |-> q]
VBool(b) == [t |-> "Bool", b |-> b]
VSymbol(s) == [s |-> s, t |-> "Symbol"]
VLiteral(s) == [s |-> s, t |-> "Literal"]
VList(vs) == [t |-> "List", l |-> vs]
VFunction(name, fn) == [t |-> "Function", name |-> name, fn |-> fn]
VLambda(params, body) == [t |-> "Lambda", params |-> params, body |-> body]
NodeWrapper(node) == [t |-> "NodeWrapper", w |-> node]
Void == [t |-> "Void"]

IsBool(val, b) == val.t = "Bool" /\ val.b = b

convert_to_node(val) == ValueWrapper(val)

(***************************************************************************)
(* Outcomes.                                                               *)
(***************************************************************************)
Out(k, v, e, d, tr) == [env |-> e, k |-> k, v |-> v, d |-> d, tr |-> tr]
Ok(v, e) == Out("Ok", v, e, 0, <<>>)
EvalError(message, e) == Out("Err", message, e, 0, <<>>)
Panic(msg, e) == Out("Panic", msg, e, 0, <<>>)
Overflow(e) == Out("Overflow", "stack overflow", e, 0, <<>>)
Max(a, b) == IF a >= b THEN a ELSE b
\* The outcome r of a call made after the calls summarised in p.
After(p, r) == [r EXCEPT !.d = Max(p.d, r.d), !.tr = p.tr \o r.tr]
\* The outcome r of the body of an activation that was entered on node.
Enter(node, r) == [r EXCEPT !.d = r.d + 1, !.tr = <<node>> \o r.tr]

(***************************************************************************)
(* f64 values are modelled as exact fractions <<num, den>> in lowest terms *)
(* with den > 0.                                                           *)
(***************************************************************************)
Abs(n) == IF n < 0 THEN -n ELSE n
RECURSIVE Gcd(_, _)
Gcd(a, b) == IF b = 0 THEN a ELSE Gcd(b, a % b)
Frac(n, d) ==
    LET s == IF d < 0 THEN -1 ELSE 1
        g == Gcd(Abs(n), Abs(d))
    IN  <<(s * n) \div g, (s * d) \div g>>
AsF64(n) == <<n, 1>>
FAdd(x, y) == Frac(x[1] * y[2] + y[1] * x[2], x[2] * y[2])
FSub(x, y) == Frac(x[1] * y[2] - y[1] * x[2], x[2] * y[2])
FMul(x, y) == Frac(x[1] * y[1], x[2] * y[2])
FDiv(x, y) == Frac(x[1] * y[2], x[2] * y[1])
FLess(x, y) == x[1] * y[2] < y[1] * x[2]
\* f64's Display: the integer part, then the fraction digits if there are any
\* (at most 16 of them).
RECURSIVE FracDigits(_, _, _)
FracDigits(r, d, left) ==
    IF r = 0 \/ left = 0 THEN ""
    ELSE ToString((r * 10) \div d) \o FracDigits((r * 10) % d, d, left - 1)
F64ToString(q) ==
    LET a == Abs(q[1])
        whole == (IF q[1] < 0 THEN "-" ELSE "") \o ToString(a \div q[2])
    IN  IF a % q[2] = 0 THEN whole
        ELSE whole \o "." \o FracDigits(a % q[2], q[2], 16)
\* i32 division truncates toward zero.
TruncDiv(x, y) ==
    LET q == Abs(x) \div Abs(y)
    IN  IF (x < 0) = (y < 0) THEN q ELSE -q

(***************************************************************************)
(* impl fmt::Display for Node (parser.rs) and for Value (interpreter.rs).  *)
(***************************************************************************)
RECURSIVE node_fmt(_)
RECURSIVE value_fmt(_)
RECURSIVE join_fmt(_, _, _)

\* output = format!("{}{}{}", output, sep, val); sep = " "
join_fmt(items, i, nodes) ==
    IF i > Len(items) THEN ""
    ELSE (IF i = 1 THEN "" ELSE " ")
         \o (IF nodes THEN node_fmt(items[i]) ELSE value_fmt(items[i]))
         \o join_fmt(items, i + 1, nodes)

node_fmt(node) ==
    CASE node.t = "NSymbol" -> node.s
      [] node.t = "NInt" -> ToString(node.n)
      [] node.t = "NFloat" -> F64ToString(node.q)
      [] node.t = "NBool" -> IF node.b THEN "#t" ELSE "#f"
      [] node.t = "NList" -> "(" \o join_fmt(node.l, 1, TRUE) \o ")"
      [] node.t = "NValueWrapper" -> value_fmt(node.w)

value_fmt(val) ==
    CASE val.t = "Int" -> ToString(val.n)
      [] val.t = "Float" -> F64ToString(val.q)
      [] val.t = "Bool" -> IF val.b THEN "#t" ELSE "#f"
      [] val.t \in {"Symbol", "Literal"} -> val.s
      [] val.t = "List" -> "(" \o join_fmt(val.l, 1, FALSE) \o ")"
      [] val.t = "Lambda" ->
            "(lambda (" \o join_fmt(val.params, 1, TRUE) \o ") ("
                \o node_fmt(val.body) \o "))"
      [] val.t = "Function" -> val.name
      [] val.t = "Void" -> "()"

(***************************************************************************)
(* environment.rs: Environment.  An Environment is the sequence of its     *)
(* scopes, innermost first: e[1] is the field env (the HashMap), Tail(e)   *)
(* is the chain hanging off the field outer.                               *)
(***************************************************************************)
Some(v) == [v |-> v, some |-> TRUE]
None == [some |-> FALSE]

PrimFn ==
    [n \in {"begin", "+", "-", "*", "/", "pow", "expt", "define", "set!",
            ">", ">=", "<", "<=", "=", "equal?", "not", "and", "or", "list",
            "car", "cdr", "cons", "append", "empty?", "null?", "length",
            "if", "map", "sin", "cos", "tan", "asin", "acos", "atan", "exp",
            "log", "log10", "sqrt", "quote", "lambda"} |->
        CASE n = "+" -> "add" [] n = "-" -> "sub" [] n = "*" -> "mul"
          [] n = "/" -> "div" [] n = "expt" -> "pow"
          [] n \in {"define", "set!"} -> "def"
          [] n = ">" -> "gt" [] n = ">=" -> "gte" [] n = "<" -> "lt"
          [] n = "<=" -> "lte" [] n \in {"=", "equal?"} -> "eq"
          [] n \in {"empty?", "null?"} -> "emptyq"
          [] n = "if" -> "if_fn" [] n = "lambda" -> "def_lambda"
          [] OTHER -> n]

\* consts::PI and consts::E, to the precision of a fraction.
PI == <<355, 113>>
E == <<193, 71>>

initialize ==
    [n \in DOMAIN PrimFn \cup {"pi", "e"} |->
        IF n = "pi" THEN VFloat(PI)
        ELSE IF n = "e" THEN VFloat(E)
        ELSE VFunction(n, PrimFn[n])]

Environment_new == <<initialize>>

new_empty(outer) == <<(<<>>)>> \o outer

RECURSIVE get(_, _)
\* get with the outer chain searched before the scope's own map.
get_outer_first(e, label) ==
    IF Len(e) > 1 /\ get(Tail(e), label).some THEN get(Tail(e), label)
    ELSE IF label \in DOMAIN e[1] THEN Some(e[1][label])
    ELSE None

get(e, label) ==
    IF label \in DOMAIN e[1] THEN Some(e[1][label])
    ELSE IF Len(e) > 1 THEN get(Tail(e), label)
    ELSE None

insert(m, label, value) ==
    [x \in DOMAIN m \cup {label} |-> IF x = label THEN value ELSE m[x]]

\* set that inserts in the outermost scope of the chain.
set_outermost(e, label, value) ==
    [e EXCEPT ![Len(e)] = insert(e[Len(e)], label, value)]

set(e, label, value) == [e EXCEPT ![1] = insert(e[1], label, value)]

(***************************************************************************)
(* interpreter.rs: Interpreter.                                            *)
(***************************************************************************)
RECURSIVE eval_node(_, _, _)
RECURSIVE eval_list(_, _, _)
RECURSIVE eval_lambda(_, _, _, _)
RECURSIVE bind_params(_, _, _, _, _, _)
RECURSIVE inline_lambda_nodes(_, _, _)
RECURSIVE quote_node(_)
RECURSIVE call_function(_, _, _, _)

eval(tree, e, fuel) == eval_node(tree, e, fuel)

eval_node(node, e, fuel) ==
    IF fuel = 0 THEN Overflow(e)
    ELSE Enter(node,
        CASE node.t = "NValueWrapper" -> Ok(node.w, e)
          [] node.t = "NInt" -> Ok(VInt(node.n), e)
          [] node.t = "NFloat" -> Ok(VFloat(node.q), e)
          [] node.t = "NBool" -> Ok(VBool(node.b), e)
          [] node.t = "NSymbol" ->
                LET res == get(e, node.s)
                IN  IF res.some THEN Ok(res.v, e) ELSE Ok(VSymbol(node.s), e)
          [] node.t = "NList" -> eval_list(node.l, e, fuel - 1))

\* The Node::List arm of eval_node.
eval_list(nodes, e, fuel) ==
    IF Len(nodes) = 0 THEN Panic("index out of bounds", e)
    ELSE
    LET func_result == eval_node(nodes[1], e, fuel)
        func_val == func_result.v
        e1 == func_result.env
    IN  IF func_result.k # "Ok" THEN func_result
        ELSE After(func_result,
            CASE func_val.t = "Symbol" ->
                    IF func_val.s = "quote" THEN
                        IF Len(nodes) < 2 THEN Panic("index out of bounds", e1)
                        ELSE Ok(quote_node(nodes[2]), e1)
                    ELSE IF func_val.s = "lambda" THEN
                        IF Len(nodes) < 3 THEN Panic("index out of bounds", e1)
                        ELSE Ok(VLambda(IF nodes[2].t = "NList" THEN nodes[2].l
                                        ELSE <<>>, nodes[3]), e1)
                    ELSE EvalError("Unknown function " \o func_val.s, e1)
              [] func_val.t = "Function" ->
                    call_function(func_val.fn, e1, Tail(nodes), fuel)
              [] func_val.t = "Lambda" ->
                    eval_lambda(func_val, nodes, e1, fuel)
              [] OTHER -> Ok(func_val, e1))

\* The loop over the parameters in eval_lambda: argument i is evaluated by
\* the calling interpreter (environment e) and bound in the new scope.
bind_params(params, nodes, i, e, child, fuel) ==
    IF i > Len(params) THEN Ok(child, e)
    ELSE IF params[i].t = "NSymbol" THEN
        LET r == eval_node(nodes[i + 1], e, fuel)
        IN  IF r.k # "Ok" THEN r
            ELSE After(r, bind_params(params, nodes, i + 1, r.env,
                                      set(child, params[i].s, r.v), fuel))
    ELSE EvalError("Invalid parameter " \o node_fmt(params[i]), e)

\* eval_lambda with the arity test nodes.len() - 1 < params.len().
eval_lambda_too_few(lambda, nodes, e, fuel) ==
    IF fuel = 0 THEN Overflow(e)
    ELSE
    LET params == lambda.params
        body == lambda.body
        r == IF Len(nodes) - 1 < Len(params)
             THEN EvalError(node_fmt(nodes[1]) \o " expects "
                            \o ToString(Len(params)) \o " params, got "
                            \o ToString(Len(nodes) - 1), e)
             ELSE LET b == bind_params(params, nodes, 1, e, new_empty(e), fuel - 1)
                  IN  IF b.k # "Ok" THEN b
                      ELSE LET inlined == inline_lambda_nodes(body, params, Tail(nodes))
                               res == eval(inlined, b.v, fuel - 1)
                           IN  After(b, [res EXCEPT !.env = b.env])
    IN  [r EXCEPT !.d = r.d + 1]

eval_lambda(lambda, nodes, e, fuel) ==
    IF fuel = 0 THEN Overflow(e)
    ELSE
    LET params == lambda.params
        body == lambda.body
        r == IF Len(nodes) - 1 # Len(params)
             THEN EvalError(node_fmt(nodes[1]) \o " expects "
                            \o ToString(Len(params)) \o " params, got "
                            \o ToString(Len(nodes) - 1), e)
             ELSE LET b == bind_params(params, nodes, 1, e, new_empty(e), fuel - 1)
                  IN  IF b.k # "Ok" THEN b
                      ELSE LET inlined == inline_lambda_nodes(body, params, Tail(nodes))
                               res == eval(inlined, b.v, fuel - 1)
                           IN  After(b, [res EXCEPT !.env = b.env])
    IN  [r EXCEPT !.d = r.d + 1]

RECURSIVE inline_symbol(_, _, _, _, _)
inline_symbol(node, label, params, values, i) ==
    IF i > Len(params) THEN node
    ELSE IF params[i].t = "NSymbol" /\ label = params[i].s THEN values[i]
    ELSE inline_symbol(node, label, params, values, i + 1)

inline_lambda_nodes(node, params, values) ==
    CASE node.t = "NList" ->
            NList([j \in 1..Len(node.l) |->
                      inline_lambda_nodes(node.l[j], params, values)])
      [] node.t = "NSymbol" -> inline_symbol(node, node.s, params, values, 1)
      [] OTHER -> node

quote_node(node) ==
    CASE node.t = "NInt" -> VLiteral(ToString(node.n))
      [] node.t = "NFloat" -> VLiteral(F64ToString(node.q))
      [] node.t = "NSymbol" -> VLiteral(node.s)
      [] node.t = "NBool" -> VLiteral(IF node.b THEN "#t" ELSE "#f")
      [] node.t = "NList" ->
            VList([j \in 1..Len(node.l) |-> quote_node(node.l[j])])
      [] OTHER -> Void

(***************************************************************************)
(* environment.rs: the primitives.  Each takes the calling interpreter's   *)
(* environment e, the unevaluated argument Nodes xs and the host stack     *)
(* left.  Value has no Complex variant a Node can evaluate to (eval_node   *)
(* has no arm for Node::Complex), so the Complex arms are unreachable and  *)
(* left out.                                                               *)
(***************************************************************************)
RECURSIVE begin_loop(_, _, _, _)
RECURSIVE add(_, _, _)
RECURSIVE sub(_, _, _)
RECURSIVE mul(_, _, _)
RECURSIVE div(_, _, _)
RECURSIVE def(_, _, _)

\* Whether an outcome ends the process rather than returning to the caller.
Aborts(r) == r.k \in {"Panic", "Overflow"}

\* for node in xs { val = interpreter.eval_node(&node); }
begin_loop(xs, i, fuel, val) ==
    IF i > Len(xs) \/ Aborts(val) THEN val
    ELSE begin_loop(xs, i + 1, fuel,
                    After(val, eval_node(xs[i], val.env, fuel)))

\* begin run on the calling interpreter itself, with no child scope.
begin_no_child(e, xs, fuel) == begin_loop(xs, 1, fuel, Ok(Void, e))

\* begin that takes its forms last to first.
begin_reversed(e, xs, fuel) ==
    LET rev == [i \in 1..Len(xs) |-> xs[Len(xs) + 1 - i]]
        val == begin_loop(rev, 1, fuel, Ok(Void, new_empty(e)))
    IN  [val EXCEPT !.env = e]

begin(e, xs, fuel) ==
    LET child == new_empty(e)
        val == begin_loop(xs, 1, fuel, Ok(Void, child))
    IN  [val EXCEPT !.env = e]

\* Value::Bool(true) => Value::Int(1), Value::Bool(false) => Value::Int(0)
coerce(val) ==
    IF val.t = "Bool" THEN VInt(IF val.b THEN 1 ELSE 0) ELSE val

IntOp(op, x, y) ==
    CASE op = "+" -> x + y [] op = "-" -> x - y
      [] op = "*" -> x * y [] op = "/" -> TruncDiv(x, y)
FloatOp(op, x, y) ==
    CASE op = "+" -> FAdd(x, y) [] op = "-" -> FSub(x, y)
      [] op = "*" -> FMul(x, y) [] op = "/" -> FDiv(x, y)

\* The match with a zero test for Int divisors only: a Float dividend over
\* Float 0.0 is the infinity x / 0.0, written <<1, 0>>.
num_match_float_inf(op, x, y, e) ==
    CASE op = "/" /\ y.t = "Int" /\ y.n = 0 ->
            EvalError("Invalid division by zero", e)
      [] op = "/" /\ y.t = "Float" /\ y.q = <<0, 1>> ->
            IF x.t \in {"Int", "Float"} THEN Ok(VFloat(<<1, 0>>), e)
            ELSE EvalError("Invalid types for '/'", e)
      [] x.t = "Int" /\ y.t = "Int" -> Ok(VInt(IntOp(op, x.n, y.n)), e)
      [] x.t = "Float" /\ y.t = "Int" ->
            Ok(VFloat(FloatOp(op, x.q, AsF64(y.n))), e)
      [] x.t = "Int" /\ y.t = "Float" ->
            Ok(VFloat(FloatOp(op, AsF64(x.n), y.q)), e)
      [] x.t = "Float" /\ y.t = "Float" -> Ok(VFloat(FloatOp(op, x.q, y.q)), e)
      [] x.t = "Symbol" -> EvalError("Unknown symbol " \o x.s, e)
      [] y.t = "Symbol" -> EvalError("Unknown symbol " \o y.s, e)
      [] OTHER -> EvalError("Invalid types for '" \o op \o "'", e)

\* match (x, y) of add, sub, mul and div
num_match(op, x, y, e) ==
    CASE op = "/" /\ ((y.t = "Int" /\ y.n = 0)
                       \/ (y.t = "Float" /\ y.q = <<0, 1>>)) ->
            EvalError("Invalid division by zero", e)
      [] x.t = "Int" /\ y.t = "Int" -> Ok(VInt(IntOp(op, x.n, y.n)), e)
      [] x.t = "Float" /\ y.t = "Int" ->
            Ok(VFloat(FloatOp(op, x.q, AsF64(y.n))), e)
      [] x.t = "Int" /\ y.t = "Float" ->
            Ok(VFloat(FloatOp(op, AsF64(x.n), y.q)), e)
      [] x.t = "Float" /\ y.t = "Float" -> Ok(VFloat(FloatOp(op, x.q, y.q)), e)
      [] x.t = "Symbol" -> EvalError("Unknown symbol " \o x.s, e)
      [] y.t = "Symbol" -> EvalError("Unknown symbol " \o y.s, e)
      [] OTHER -> EvalError("Invalid types for '" \o op \o "'", e)

\* The numeric result of sub / div put back as a Node for the next fold step.
num_node(val) == IF val.t = "Int" THEN NInt(val.n) ELSE NFloat(val.q)

\* let x = eval_node(&xs[0]); let y = eval_node(&xs[1]);  v is <<x, y>>.
eval_two(e, xs, fuel) ==
    LET rx == eval_node(xs[1], e, fuel)
    IN  IF rx.k # "Ok" THEN rx
        ELSE IF Len(xs) < 2
        THEN After(rx, Panic("index out of bounds", rx.env))
        ELSE LET ry == eval_node(xs[2], rx.env, fuel)
             IN  IF ry.k # "Ok" THEN After(rx, ry)
                 ELSE After(rx, [ry EXCEPT !.v = <<rx.v, ry.v>>])

\* add and mul: x from xs[0], y from the same function on xs[1..].
fold_right(op, e, xs, fuel) ==
    LET rx == eval_node(xs[1], e, fuel)
    IN  IF rx.k # "Ok" THEN rx
        ELSE LET ry == IF op = "+" THEN add(rx.env, Tail(xs), fuel)
                       ELSE mul(rx.env, Tail(xs), fuel)
             IN  IF ry.k # "Ok" THEN After(rx, ry)
                 ELSE After(rx, After(ry,
                        num_match(op, coerce(rx.v), coerce(ry.v), ry.env)))

add(e, xs, fuel) ==
    IF Len(xs) = 0 THEN Ok(VInt(0), e) ELSE fold_right("+", e, xs, fuel)

mul(e, xs, fuel) ==
    IF Len(xs) = 0 THEN Ok(VInt(1), e) ELSE fold_right("*", e, xs, fuel)

\* sub and div after their first test: two operands, then the result or the
\* fold over the rest.
fold_left(op, e, xs, fuel) ==
    IF Len(xs) = 0 THEN Panic("index out of bounds", e)
    ELSE
    LET r == eval_two(e, xs, fuel)
    IN  IF r.k # "Ok" THEN r
        ELSE LET m == num_match(op, coerce(r.v[1]), coerce(r.v[2]), r.env)
             IN  IF Len(xs) < 3 \/ m.k # "Ok" THEN After(r, m)
                 ELSE LET rest == <<num_node(m.v)>> \o SubSeq(xs, 3, Len(xs))
                      IN  After(r, IF op = "-" THEN sub(r.env, rest, fuel)
                                   ELSE div(r.env, rest, fuel))

sub(e, xs, fuel) ==
    IF Len(xs) = 0 THEN Ok(VInt(0), e) ELSE fold_left("-", e, xs, fuel)

div(e, xs, fuel) ==
    IF Len(xs) = 1 THEN Ok(VInt(1), e) ELSE fold_left("/", e, xs, fuel)

def(e, xs, fuel) ==
    IF Len(xs) = 0 THEN Panic("index out of bounds", e)
    ELSE
    LET x == xs[1]
    IN  CASE x.t = "NList" ->
                IF Len(x.l) = 0 \/ Len(xs) < 2
                THEN Panic("index out of bounds", e)
                ELSE LET params == Tail(x.l)
                         body == IF Len(xs) > 2
                                 THEN NList([xs EXCEPT ![1] = Sym("begin")])
                                 ELSE xs[2]
                         lambda == ValueWrapper(VLambda(params, body))
                     IN  def(e, <<x.l[1], lambda>>, fuel)
          [] x.t = "NSymbol" ->
                IF Len(xs) < 2 THEN Panic("index out of bounds", e)
                ELSE LET y == eval_node(xs[2], e, fuel)
                     IN  IF y.k # "Ok" THEN y
                         ELSE After(y, Ok(Void, set(y.env, x.s, y.v)))
          [] OTHER -> EvalError("Can't define " \o node_fmt(x), e)

Exactly(name, count) == "'" \o name \o "' takes exactly " \o count

\* gt, gte, lt, lte and eq.
compare(op, e, xs, fuel) ==
    IF Len(xs) # 2 THEN EvalError(Exactly(op, "two arguments"), e)
    ELSE
    LET r == eval_two(e, xs, fuel)
        x == r.v[1]
        y == r.v[2]
        fx == IF x.t = "Int" THEN AsF64(x.n) ELSE x.q
        fy == IF y.t = "Int" THEN AsF64(y.n) ELSE y.q
    IN  IF r.k # "Ok" THEN r
        ELSE After(r,
            CASE x.t \in {"Int", "Float"} /\ y.t \in {"Int", "Float"} ->
                    Ok(VBool(CASE op = ">" -> FLess(fy, fx)
                               [] op = ">=" -> ~FLess(fx, fy)
                               [] op = "<" -> FLess(fx, fy)
                               [] op = "<=" -> ~FLess(fy, fx)
                               [] op = "=" -> fx = fy), r.env)
              [] op = "=" /\ x.t = "Literal" /\ y.t = "Literal" ->
                    Ok(VBool(x.s = y.s), r.env)
              [] x.t = "Symbol" -> EvalError("Unknown symbol " \o x.s, r.env)
              [] y.t = "Symbol" -> EvalError("Unknown symbol " \o y.s, r.env)
              [] OTHER -> EvalError("Invalid types for '" \o op \o "'", r.env))

\* The primitives of one argument that match on its value.
unary(name, e, xs, fuel) ==
    IF Len(xs) # 1 THEN EvalError(Exactly(name, "one argument"), e)
    ELSE
    LET r == eval_node(xs[1], e, fuel)
        x == r.v
        bad == EvalError("Invalid type for '" \o name \o "'", r.env)
    IN  IF r.k # "Ok" THEN r
        ELSE After(r,
            CASE name = "not" ->
                    IF x.t = "Bool" THEN Ok(VBool(~x.b), r.env) ELSE bad
              [] name = "empty?" ->
                    IF x.t = "List" THEN Ok(VBool(Len(x.l) = 0), r.env) ELSE bad
              [] name = "length" ->
                    IF x.t = "List" THEN Ok(VInt(Len(x.l)), r.env) ELSE bad
              [] name = "car" ->
                    IF x.t # "List" THEN bad
                    ELSE IF Len(x.l) = 0 THEN Panic("index out of bounds", r.env)
                    ELSE Ok(x.l[1], r.env)
              [] name = "cdr" ->
                    IF x.t # "List" THEN bad
                    ELSE IF Len(x.l) = 0 THEN Panic("index out of bounds", r.env)
                    ELSE Ok(VList(Tail(x.l)), r.env))

RECURSIVE and(_, _, _)
RECURSIVE or(_, _, _)
RECURSIVE list_loop(_, _, _, _)
RECURSIVE map_function(_, _, _, _, _)
RECURSIVE map_lambda(_, _, _, _, _, _)
RECURSIVE quote_value(_)

\* and that goes on to the next argument after a false one.
and_no_stop(e, xs, fuel) ==
    IF Len(xs) = 0 THEN Ok(VBool(TRUE), e)
    ELSE LET x == eval_node(xs[1], e, fuel)
         IN  IF Len(xs) = 1 \/ x.k # "Ok" THEN x
             ELSE IF IsBool(x.v, TRUE) \/ IsBool(x.v, FALSE)
             THEN After(x, and(x.env, Tail(xs), fuel))
             ELSE After(x, EvalError("Invalid type for 'and'", x.env))

and(e, xs, fuel) ==
    IF Len(xs) = 0 THEN Ok(VBool(TRUE), e)
    ELSE LET x == eval_node(xs[1], e, fuel)
         IN  IF Len(xs) = 1 \/ x.k # "Ok" \/ IsBool(x.v, FALSE) THEN x
             ELSE IF IsBool(x.v, TRUE) THEN After(x, and(x.env, Tail(xs), fuel))
             ELSE After(x, EvalError("Invalid type for 'and'", x.env))

or(e, xs, fuel) ==
    IF Len(xs) = 0 THEN Ok(VBool(FALSE), e)
    ELSE LET x == eval_node(xs[1], e, fuel)
         IN  IF Len(xs) = 1 \/ x.k # "Ok" \/ IsBool(x.v, TRUE) THEN x
             ELSE IF IsBool(x.v, FALSE) THEN After(x, or(x.env, Tail(xs), fuel))
             ELSE After(x, EvalError("Invalid type for 'and'", x.env))

\* for node in xs { vals.push(eval_node(&node)?) }; acc carries vals in v.
list_loop(xs, i, fuel, acc) ==
    IF i > Len(xs) THEN [acc EXCEPT !.v = VList(acc.v)]
    ELSE LET r == eval_node(xs[i], acc.env, fuel)
         IN  IF r.k # "Ok" THEN After(acc, r)
             ELSE list_loop(xs, i + 1, fuel,
                            After(acc, [r EXCEPT !.v = Append(acc.v, r.v)]))

list(e, xs, fuel) == list_loop(xs, 1, fuel, Ok(<<>>, e))

cons(e, xs, fuel) ==
    IF Len(xs) # 2 THEN EvalError(Exactly("cons", "two arguments"), e)
    ELSE LET r == eval_two(e, xs, fuel)
         IN  IF r.k # "Ok" THEN r
             ELSE IF r.v[2].t = "List"
             THEN [r EXCEPT !.v = VList(<<r.v[1]>> \o r.v[2].l)]
             ELSE After(r, EvalError("Invalid type for 'cons'", r.env))

append(e, xs, fuel) ==
    IF Len(xs) # 2 THEN EvalError(Exactly("cons", "two arguments"), e)
    ELSE LET r == eval_two(e, xs, fuel)
         IN  IF r.k # "Ok" THEN r
             ELSE IF r.v[1].t = "List" /\ r.v[2].t = "List"
             THEN [r EXCEPT !.v = VList(r.v[1].l \o r.v[2].l)]
             ELSE After(r, EvalError("Invalid type for 'cons'", r.env))

\* if_fn that evaluates the chosen branch itself.
if_fn_eager(e, xs, fuel) ==
    IF Len(xs) # 3 THEN EvalError(Exactly("if", "three arguments"), e)
    ELSE LET r == eval_node(xs[1], e, fuel)
         IN  IF r.k # "Ok" THEN r
             ELSE IF r.v.t # "Bool"
             THEN After(r, EvalError("'if' requires a boolean test", r.env))
             ELSE After(r, eval_node(IF r.v.b THEN xs[2] ELSE xs[3], r.env, fuel))

if_fn(e, xs, fuel) ==
    IF Len(xs) # 3 THEN EvalError(Exactly("if", "three arguments"), e)
    ELSE LET r == eval_node(xs[1], e, fuel)
         IN  IF r.k # "Ok" THEN r
             ELSE IF r.v.t # "Bool"
             THEN After(r, EvalError("'if' requires a boolean test", r.env))
             ELSE [r EXCEPT !.v = NodeWrapper(IF r.v.b THEN xs[2] ELSE xs[3])]

\* The (Function, List) arm of map: acc carries res in v; a call that
\* returns Err adds nothing.
map_function(fn, vals, i, fuel, acc) ==
    IF i > Len(vals) THEN [acc EXCEPT !.v = VList(acc.v)]
    ELSE LET r == call_function(fn, acc.env, <<convert_to_node(vals[i])>>, fuel)
         IN  IF Aborts(r) THEN After(acc, r)
             ELSE map_function(fn, vals, i + 1, fuel,
                    After(acc, [r EXCEPT !.k = "Ok",
                                         !.v = IF r.k = "Ok" THEN Append(acc.v, r.v)
                                               ELSE acc.v]))

\* The (Lambda, List) arm of map.
map_lambda(lambda, callee, vals, i, fuel, acc) ==
    IF i > Len(vals) THEN [acc EXCEPT !.v = VList(acc.v)]
    ELSE LET r == eval_lambda(lambda, <<callee, convert_to_node(vals[i])>>,
                              acc.env, fuel)
         IN  IF r.k # "Ok" THEN After(acc, r)
             ELSE map_lambda(lambda, callee, vals, i + 1, fuel,
                             After(acc, [r EXCEPT !.v = Append(acc.v, r.v)]))

map(e, xs, fuel) ==
    IF Len(xs) # 2 THEN EvalError(Exactly("map", "two arguments"), e)
    ELSE LET r == eval_two(e, xs, fuel)
             start == [r EXCEPT !.v = <<>>]
         IN  IF r.k # "Ok" THEN r
             ELSE IF r.v[1].t = "Function" /\ r.v[2].t = "List"
             THEN map_function(r.v[1].fn, r.v[2].l, 1, fuel, start)
             ELSE IF r.v[1].t = "Lambda" /\ r.v[2].t = "List"
             THEN map_lambda(r.v[1], xs[1], r.v[2].l, 1, fuel, start)
             ELSE After(r, EvalError("Invalid type for 'map'", r.env))

\* The match of quote with a Bool rendered by bool's own to_string.
quote_value_bool_words(node) ==
    CASE node.t = "NInt" -> VLiteral(ToString(node.n))
      [] node.t = "NFloat" -> VLiteral(F64ToString(node.q))
      [] node.t = "NSymbol" -> VLiteral(node.s)
      [] node.t = "NBool" -> VLiteral(IF node.b THEN "true" ELSE "false")
      [] node.t = "NList" ->
            VList([j \in 1..Len(node.l) |-> quote_value(node.l[j])])
      [] OTHER -> Void

\* The match of quote on one Node.
quote_value(node) ==
    CASE node.t = "NInt" -> VLiteral(ToString(node.n))
      [] node.t = "NFloat" -> VLiteral(F64ToString(node.q))
      [] node.t = "NSymbol" -> VLiteral(node.s)
      [] node.t = "NBool" -> VLiteral(IF node.b THEN "#t" ELSE "#f")
      [] node.t = "NList" ->
            VList([j \in 1..Len(node.l) |-> quote_value(node.l[j])])
      [] OTHER -> Void

\* quote that evaluates its argument.
quote_evaluating(e, xs, fuel) ==
    IF Len(xs) # 1 THEN EvalError(Exactly("quote", "one argument"), e)
    ELSE eval_node(xs[1], e, fuel)

quote(e, xs, fuel) ==
    IF Len(xs) # 1 THEN EvalError(Exactly("quote", "one argument"), e)
    ELSE Ok(quote_value(xs[1]), e)

def_lambda(e, xs, fuel) ==
    IF Len(xs) # 2 THEN EvalError(Exactly("lambda", "two argumenta"), e)
    ELSE IF xs[1].t # "NList"
    THEN EvalError("lambda should provide a param list", e)
    ELSE Ok(VLambda(xs[1].l, xs[2]), e)

\* func(self, args): the fn pointer a Value::Function holds.  pow and the
\* functions of f64's libm (sin .. sqrt) have no exact model on fractions.
call_function(fn, e, xs, fuel) ==
    CASE fn = "begin" -> begin(e, xs, fuel)
      [] fn = "add" -> add(e, xs, fuel)
      [] fn = "sub" -> sub(e, xs, fuel)
      [] fn = "mul" -> mul(e, xs, fuel)
      [] fn = "div" -> div(e, xs, fuel)
      [] fn = "def" -> def(e, xs, fuel)
      [] fn = "gt" -> compare(">", e, xs, fuel)
      [] fn = "gte" -> compare(">=", e, xs, fuel)
      [] fn = "lt" -> compare("<", e, xs, fuel)
      [] fn = "lte" -> compare("<=", e, xs, fuel)
      [] fn = "eq" -> compare("=", e, xs, fuel)
      [] fn = "not" -> unary("not", e, xs, fuel)
      [] fn = "emptyq" -> unary("empty?", e, xs, fuel)
      [] fn = "length" -> unary("length", e, xs, fuel)
      [] fn = "car" -> unary("car", e, xs, fuel)
      [] fn = "cdr" -> unary("cdr", e, xs, fuel)
      [] fn = "and" -> and(e, xs, fuel)
      [] fn = "or" -> or(e, xs, fuel)
      [] fn = "list" -> list(e, xs, fuel)
      [] fn = "cons" -> cons(e, xs, fuel)
      [] fn = "append" -> append(e, xs, fuel)
      [] fn = "if_fn" -> if_fn(e, xs, fuel)
      [] fn = "map" -> map(e, xs, fuel)
      [] fn = "quote" -> quote(e, xs, fuel)
      [] fn = "def_lambda" -> def_lambda(e, xs, fuel)
      [] OTHER -> Out("NotModelled", fn, e, 0, <<>>)

(***************************************************************************)
(* The programs the interpreter is run on.                                 *)
(***************************************************************************)
Call(f, args) == NList(<<f>> \o args)
Call1(f, a) == NList(<<Sym(f), a>>)
Call2(f, a, b) == NList(<<Sym(f), a, b>>)
Call3(f, a, b, c) == NList(<<Sym(f), a, b, c>>)

Names == {"x", "y"}
Forms == {"define", "set!"}
DefRhs == {NInt(1), NInt(10), Sym("y")}
ArgExprs == {Sym("x"), Sym("y"), NInt(1), Call2("+", Sym("y"), NInt(1))}
ArgLists == UNION {[1..n -> ArgExprs] : n \in 0..MaxArgs}
ParamLists == {<<>>, <<Sym("x")>>, <<Sym("x"), Sym("y")>>}
Bodies == {Call2("+", Sym("x"), Sym("y")), Call2("-", Sym("x"), Sym("y"))}
LambdaExpr(params, body) == Call2("lambda", NList(params), body)

LoopBody ==
    Call3("if", Call2("<=", Sym("n"), NInt(0)), Sym("acc"),
          Call2("loop", Call2("-", Sym("n"), NInt(1)),
                        Call2("+", Sym("acc"), Sym("n"))))
DefineLoop ==
    Call2("define", Sym("loop"),
          LambdaExpr(<<Sym("n"), Sym("acc")>>, LoopBody))

Tests == {Call2(">", NInt(6), NInt(5)), Call2("<", NInt(6), NInt(5)),
          NBool(TRUE), Sym("x")}
Branches == {Call2("+", NInt(1), NInt(1)), Call2("+", NInt(2), NInt(2)),
             Sym("y"), NInt(7)}

Malformed == {NList(<<>>), NList(<<Sym("define")>>), Call1("define", Sym("x")),
              Call1("set!", Sym("y")), Call1("-", NInt(1)), NList(<<Sym("/")>>),
              Call1("define", NList(<<>>))}

Heads == {NInt(1), NBool(TRUE), Sym("zzz"), Sym("x"), Call1("quote", Sym("a")),
          Call1("list", NInt(1)), NList(<<Sym("begin")>>),
          Call3("if", NBool(TRUE), Sym("+"), Sym("-"))}

(***************************************************************************)
(* main.rs: repl, and tests.rs: run_test.  One persistent Interpreter      *)
(* evaluates one parsed Node per step; env is its field env, last records  *)
(* the step: the Node, the environment before it and the outcome.          *)
(***************************************************************************)
\* Nothing evaluated yet on environment e: the loop is about to read a line.
Idle(e) == [k |-> "Ok", v |-> Void, d |-> 0, tr |-> <<>>,
            kind |-> "new", line |-> NList(<<>>), before |-> e]

Init ==
    /\ env = Environment_new
    /\ last = Idle(Environment_new)

interpreter_eval(kind, line) ==
    /\ last.kind = "new"
    /\ LET r == eval(line, env, MaxStack)
       IN  /\ env' = r.env
           /\ last' = [k |-> r.k, v |-> r.v, d |-> r.d, tr |-> r.tr,
                       kind |-> kind, line |-> line, before |-> env]

\* The result or the error is printed and the loop reads the next line; a
\* panic or an exhausted stack has ended the process.
Prompt ==
    /\ last.kind # "new"
    /\ last.k \in {"Ok", "Err"}
    /\ env' = env
    /\ last' = Idle(env)

Define ==
    \E form \in Forms, n \in Names, rhs \in DefRhs :
        interpreter_eval("define", Call2(form, Sym(n), rhs))

CallLambda ==
    \E params \in ParamLists, body \in Bodies, args \in ArgLists :
        interpreter_eval("call", Call(LambdaExpr(params, body), args))

If ==
    \E test \in Tests, a \in Branches, b \in Branches :
        interpreter_eval("if", Call3("if", test, a, b))

DefLoop == interpreter_eval("defloop", DefineLoop)

CallLoop ==
    \E n \in 0..MaxIter :
        /\ get(env, "loop").some
        /\ interpreter_eval("loop", Call2("loop", NInt(n), NInt(0)))

Begin ==
    \E a \in 1..2, b \in 1..2, c \in 1..2 :
        interpreter_eval("begin",
            Call3("begin", Call2("define", Sym("x"), NInt(a)),
                  Call2("set!", Sym("x"), Call2("+", Sym("x"), NInt(b))),
                  Call2("+", Sym("x"), NInt(c))))

BodyDefine ==
    \E form \in Forms, n \in Names, a \in 2..3, nested \in BOOLEAN :
        interpreter_eval("bodydefine",
            Call(LambdaExpr(<<Sym("z")>>,
                    IF nested
                    THEN Call2("begin", Call2(form, Sym(n), Sym("z")), Sym(n))
                    ELSE Call2(form, Sym(n), Sym("z"))),
                 <<NInt(a)>>))

EvalMalformed == \E line \in Malformed : interpreter_eval("malformed", line)

BadCall ==
    \E h \in Heads, a \in {NInt(2), Sym("y")} :
        interpreter_eval("badcall", NList(<<h, a>>))

Next ==
    \/ Prompt
    \/ Define
    \/ CallLambda
    \/ If
    \/ DefLoop
    \/ CallLoop
    \/ Begin
    \/ BodyDefine
    \/ EvalMalformed
    \/ BadCall

Spec == Init /\ [][Next]_vars

\* ---------------------------------------------------------------------
\* The scope chain on its own: child scopes are opened and left around
\* definitions and lookups (Environment::new_empty, get, set).
\* ---------------------------------------------------------------------

EnterScope ==
    /\ last.kind = "new"
    /\ Len(env) < MaxScopes
    /\ env' = new_empty(env)
    /\ last' = Idle(env')

LeaveScope ==
    /\ last.kind = "new"
    /\ Len(env) > 1
    /\ env' = Tail(env)
    /\ last' = Idle(env')

Lookup ==
    \E n \in Names \cup {"+", "zz"} :
        /\ last.kind = "new"
        /\ env' = env
        /\ last' = [k |-> "Ok", v |-> get(env, n), d |-> 0, tr |-> <<>>,
                    kind |-> "get", line |-> Sym(n), before |-> env]

NextEnv == Prompt \/ EnterScope \/ LeaveScope \/ Define \/ Lookup

SpecEnv == Init /\ [][NextEnv]_vars

\* ---------------------------------------------------------------------
\* Properties
\* ---------------------------------------------------------------------

\* The pieces of an evaluated lambda application ((lambda params body) args).
CallParams == last.line.l[1].l[2].l
CallBody == last.line.l[1].l[3]
CallArgs == Tail(last.line.l)

\* The value an expression has in the environment the line was evaluated in.
ValueBefore(node) == eval(node, last.before, MaxStack)

C2_IfReturnsBranchValue ==
    /\ (last.kind # "new" /\ last.k = "Ok") => last.v.t # "NodeWrapper"
    /\ (last.kind = "if" /\ last.k = "Ok")
          => LET test == ValueBefore(last.line.l[2])
                 branch == IF IsBool(test.v, TRUE) THEN last.line.l[3]
                           ELSE last.line.l[4]
             IN  last.v = ValueBefore(branch).v

C4_ArityMismatch ==
    (last.kind = "call" /\ Len(CallArgs) # Len(CallParams))
        => /\ last.k = "Err"
           /\ last.v = node_fmt(last.line.l[1]) \o " expects "
                       \o ToString(Len(CallParams)) \o " params, got "
                       \o ToString(Len(CallArgs))
           /\ last.tr = <<last.line, last.line.l[1], Sym("lambda")>>
           /\ env = last.before

C4_Witness ==
    /\ last.kind = "call"
    /\ Len(CallParams) = 1
    /\ Len(CallArgs) = 2
    /\ last.k = "Err"

\* The scopes of the chain that bind a name, innermost first.
Binders(e, n) == {i \in 1..Len(e) : n \in DOMAIN e[i]}

\* C5: get returns the binding of the innermost scope that has the name,
\* and not-found only when no scope of the chain binds it.
C5_GetInnermost ==
    last.kind = "get"
        => LET n == last.line.s
               bs == Binders(env, n)
           IN  IF bs = {} THEN ~last.v.some
               ELSE /\ last.v.some
                    /\ last.v.v = env[CHOOSE i \in bs :
                                         \A j \in bs : i <= j][n]

C5_Witness ==
    /\ last.kind = "get"
    /\ Binders(env, last.line.s) = {1, 2}
    /\ env[1][last.line.s] # env[2][last.line.s]
    /\ last.v = Some(env[1][last.line.s])

\* The name and the right-hand side of an evaluated (define n rhs).
DefName == last.line.l[2].s
DefValue == ValueBefore(last.line.l[3]).v

\* C6: define / set! of a symbol evaluates the right-hand side, writes the
\* binding in the innermost scope only, leaves the outer scopes and the
\* other bindings as they were, returns Void, and a later lookup of the
\* name yields the value.
C6_DefineInnermostOnly ==
    last.kind = "define"
        => /\ last.k = "Ok"
           /\ last.v = Void
           /\ Tail(env) = Tail(last.before)
           /\ DOMAIN env[1] = DOMAIN last.before[1] \cup {DefName}
           /\ \A m \in DOMAIN env[1] \ {DefName} :
                   env[1][m] = last.before[1][m]
           /\ env[1][DefName] = DefValue
           /\ get(env, DefName) = Some(DefValue)

C6_Witness ==
    /\ last.kind = "define"
    /\ Len(env) = 2
    /\ DefName \in DOMAIN env[2]
    /\ env[2][DefName] # env[1][DefName]
    /\ last.line.l[1] = Sym("set!")

C8_BeginSequential ==
    last.kind = "begin"
        => /\ last.k = "Ok"
           /\ last.v = VInt(last.line.l[2].l[3].n
                            + last.line.l[3].l[3].l[3].n
                            + last.line.l[4].l[3].n)

C8_Witness ==
    /\ last.kind = "begin"
    /\ last.line = Call3("begin", Call2("define", Sym("x"), NInt(1)),
                         Call2("set!", Sym("x"),
                               Call2("+", Sym("x"), NInt(1))),
                         Call2("+", Sym("x"), NInt(1)))
    /\ last.k = "Ok"
    /\ last.v = VInt(3)

\* C9: eval never aborts: every input, the malformed lists (), (define),
\* (define x), (- 1) and (/) included, ends in a Value or an EvalError.
C9_NeverAborts ==
    last.k \in {"Ok", "Err"}

\* C10: a list whose head evaluates to something other than a Function, a
\* Lambda or a NodeWrapper yields an EvalError, never a Value.
C10_BadHeadIsError ==
    (last.kind = "badcall"
        /\ ValueBefore(last.line.l[1]).k = "Ok"
        /\ ValueBefore(last.line.l[1]).v.t
               \notin {"Function", "Lambda", "NodeWrapper"})
        => last.k = "Err"

\* ---------------------------------------------------------------------
\* The special forms on their own: if, and / or, quote, and the two
\* spellings of a function definition.
\* ---------------------------------------------------------------------

\* ((if (> n 0) + -) 0 n), the body of tests.rs's abs applied to n.
IfOperator ==
    \E n \in -1..1 :
        interpreter_eval("ifop",
            Call(Call3("if", Call2(">", NInt(n), NInt(0)), Sym("+"), Sym("-")),
                 <<NInt(0), NInt(n)>>))

\* (define (f p...) body...) and what the specification calls its
\* equivalent, (define f (lambda (p...) body...)), with one or two body forms.
FnParams == {<<Sym("x")>>, <<Sym("x"), Sym("y")>>}
FnBodies ==
    LET Body == {Sym("x"), Call2("+", Sym("x"), NInt(1))}
    IN  UNION {[1..n -> Body] : n \in 1..2}
DefineSugar(params, body) ==
    Call(Sym("define"), <<NList(<<Sym("f")>> \o params)>> \o body)
DefineExplicit(params, body) ==
    Call2("define", Sym("f"), Call(Sym("lambda"), <<NList(params)>> \o body))

DefineFn ==
    \E params \in FnParams, body \in FnBodies :
        \/ interpreter_eval("sugar", DefineSugar(params, body))
        \/ interpreter_eval("explicit", DefineExplicit(params, body))

\* (and a...) and (or a...): Bool literals, an argument with an effect and
\* an argument that is an error.
AndOrArgs ==
    LET Arg == {NBool(TRUE), NBool(FALSE), Call2("define", Sym("x"), NInt(1)),
                Call1("car", Call1("quote", NList(<<>>)))}
    IN  UNION {[1..n -> Arg] : n \in 1..(MaxArgs + 1)}

AndOr ==
    \E op \in {"and", "or"}, args \in AndOrArgs :
        interpreter_eval("andor", Call(Sym(op), args))

\* if with no, one, two and four arguments.
IfArity ==
    \E args \in {<<>>, <<NBool(TRUE)>>, <<NBool(TRUE), NInt(1)>>,
                  <<NBool(FALSE), NInt(1), NInt(2), NInt(3)>>} :
        interpreter_eval("ifarity", Call(Sym("if"), args))

\* (quote n): n an atom, a list of atoms, or a list with a list in it.
QuoteArgs ==
    LET Atom == {Sym("a"), Sym("b"), Sym("c"), Sym("car"), NInt(1),
                 NBool(TRUE)}
        Lists == UNION {[1..n -> Atom] : n \in 0..(MaxArgs + 1)}
    IN  Atom \cup {NList(l) : l \in Lists}
             \cup {NList(<<Sym("a"), NList(<<Sym("b"), NInt(1)>>)>>),
                   Call1("car", Call1("quote", NList(<<>>)))}

Quote == \E n \in QuoteArgs : interpreter_eval("quote", Call1("quote", n))

NextForms ==
    \/ Prompt
    \/ If
    \/ IfArity
    \/ IfOperator
    \/ DefineFn
    \/ AndOr
    \/ Quote

SpecForms == Init /\ [][NextForms]_vars

\* C11: a call whose operator is an if expression applies the value of
\* the chosen branch to the arguments: ((if (> n 0) + -) 0 n) is Int |n|.
C11_IfInOperatorPosition ==
    last.kind = "ifop"
        => /\ last.k = "Ok"
           /\ last.v = VInt(Abs(last.line.l[3].n))

(***************************************************************************)
(* parser.rs: Token, parse, parse_nodes, parse_node.  The slice iterator   *)
(* is the token sequence and the position of the next token; a parse       *)
(* result is [k, v, pos]: k "Ok" with v the parsed value, or k "Err" with  *)
(* v the ParseError's message, and pos the iterator afterwards.  The       *)
(* messages are the code's own, "Unexected end of input" included.         *)
(***************************************************************************)
OpenParen == [t |-> "OpenParen"]
CloseParen == [t |-> "CloseParen"]
NonParen(s) == [s |-> s, t |-> "NonParen"]

Parsed(k, v, pos) == [k |-> k, v |-> v, pos |-> pos]

\* The NonParen arm of parse_node.  A text is not indexable, so the parses
\* are taken on the texts the model uses: parse::<i32>() on the decimal
\* texts of -10..10, parse::<f64>() on those, on the texts f64's Display
\* gives the halves and quarters and on FloatText, and the complex regex on
\* Captures, each text with its two captured groups (group 1 takes part in
\* every match, with the empty text when no real part is written).  The
\* result is the Node, or the ParseError with its message.
parse_atom(val) ==
    LET Ints == -10..10
        Fracs == {Frac(n, d) : n \in Ints, d \in {2, 4}}
        FloatText == ("1e1" :> <<10, 1>>) @@ ("+2" :> <<2, 1>>)
                        @@ ("+0.5" :> <<1, 2>>)
        Captures == ("1+2i" :> <<"1", "+2">>) @@ ("3-i" :> <<"3", "-">>)
                        @@ ("+i" :> <<"", "+">>) @@ ("-2i" :> <<"", "-2">>)
                        @@ ("0.5+0.5i" :> <<"0.5", "+0.5">>)
                        @@ ("2+.i" :> <<"2", "+.">>)
        IsInt(text) == \E n \in Ints : ToString(n) = text
        IntOf(text) == CHOOSE n \in Ints : ToString(n) = text
        parse_f64(text) ==
            IF IsInt(text) THEN Some(AsF64(IntOf(text)))
            ELSE IF \E q \in Fracs : F64ToString(q) = text
            THEN Some(CHOOSE q \in Fracs : F64ToString(q) = text)
            ELSE IF text \in DOMAIN FloatText THEN Some(FloatText[text])
            ELSE None
    IN  CASE val = "#t" -> NBool(TRUE)
          [] val = "#f" -> NBool(FALSE)
          [] val \in DOMAIN Captures ->
                LET real_part == parse_f64(Captures[val][1])
                    imaginary_part ==
                        CASE Captures[val][2] = "-" -> Some(AsF64(-1))
                          [] Captures[val][2] = "+" -> Some(AsF64(1))
                          [] OTHER -> parse_f64(Captures[val][2])
                IN  IF real_part.some /\ imaginary_part.some
                    THEN [t |-> "NComplex", re |-> real_part.v,
                          im |-> imaginary_part.v]
                    ELSE [t |-> "ParseError",
                          message |-> "Error parsing complex constant " \o val]
          [] IsInt(val) -> NInt(IntOf(val))
          [] parse_f64(val).some -> NFloat(parse_f64(val).v)
          [] OTHER -> Sym(val)

\* Then applied to value, with value computed once: the set binds it.
Bind(value, Then(_)) == CHOOSE out \in {Then(x) : x \in {value}} : TRUE

RECURSIVE parse_nodes(_, _, _, _)
RECURSIVE parse_node(_, _, _)

\* loop { match try!(parse_node(..)) { Some(node) => push, None => return } }
parse_nodes(tokens, pos, depth, node_list) ==
    Bind(parse_node(tokens, pos, depth), LAMBDA r :
        IF r.k # "Ok" THEN r
        ELSE IF r.v.some
        THEN parse_nodes(tokens, r.pos, depth, Append(node_list, r.v.v))
        ELSE Parsed("Ok", node_list, r.pos))

\* parse_node with a CloseParen at depth 0 taken as the end of the list.
parse_node_close_at_top(tokens, pos, depth) ==
    IF pos > Len(tokens)
    THEN IF depth = 0 THEN Parsed("Ok", None, pos)
         ELSE Parsed("Err", "Unexected end of input", pos)
    ELSE LET token == tokens[pos]
         IN  CASE token.t = "OpenParen" ->
                    Bind(parse_nodes(tokens, pos + 1, depth + 1, <<>>),
                         LAMBDA inner :
                            IF inner.k # "Ok" THEN inner
                            ELSE Parsed("Ok", Some(NList(inner.v)), inner.pos))
               [] token.t = "CloseParen" -> Parsed("Ok", None, pos + 1)
               [] token.t = "String" ->
                    Parsed("Ok", Some([s |-> token.s, t |-> "NString"]),
                           pos + 1)
               [] token.t = "NonParen" ->
                    Bind(parse_atom(token.s), LAMBDA node :
                        IF node.t = "ParseError"
                        THEN Parsed("Err", node.message, pos + 1)
                        ELSE Parsed("Ok", Some(node), pos + 1))

parse_node(tokens, pos, depth) ==
    IF pos > Len(tokens)
    THEN IF depth = 0 THEN Parsed("Ok", None, pos)
         ELSE Parsed("Err", "Unexected end of input", pos)
    ELSE LET token == tokens[pos]
         IN  CASE token.t = "OpenParen" ->
                    Bind(parse_nodes(tokens, pos + 1, depth + 1, <<>>),
                         LAMBDA inner :
                            IF inner.k # "Ok" THEN inner
                            ELSE Parsed("Ok", Some(NList(inner.v)), inner.pos))
               [] token.t = "CloseParen" ->
                    IF depth > 0 THEN Parsed("Ok", None, pos + 1)
                    ELSE Parsed("Err", "Unexpected close paren", pos + 1)
               [] token.t = "String" ->
                    Parsed("Ok", Some([s |-> token.s, t |-> "NString"]),
                           pos + 1)
               [] token.t = "NonParen" ->
                    Bind(parse_atom(token.s), LAMBDA node :
                        IF node.t = "ParseError"
                        THEN Parsed("Err", node.message, pos + 1)
                        ELSE Parsed("Ok", Some(node), pos + 1))

\* Ok(val[0].clone()) indexes the vector of top-level nodes unguarded.
parse(tokens) ==
    Bind(parse_nodes(tokens, 1, 0, <<>>), LAMBDA r :
        IF r.k # "Ok" THEN r
        ELSE IF Len(r.v) > 1
        THEN Parsed("Err", "Only one outer level permitted", r.pos)
        ELSE IF Len(r.v) = 0 THEN Parsed("Panic", "index out of bounds", r.pos)
        ELSE Parsed("Ok", r.v[1], r.pos))

(***************************************************************************)
(* parser.rs: tokenize.  A program text is the sequence of its pieces:     *)
(* "(", ")", the double quote, a blank " ", or a run of other characters   *)
(* (the apostrophe is such a character).  The texts of the model hold no   *)
(* backslash, so the replacements that undo an escaped quote do nothing.   *)
(***************************************************************************)
\* string.join(" ")
RECURSIVE join_words(_, _)
join_words(string, i) ==
    IF i > Len(string) THEN ""
    ELSE (IF i = 1 THEN "" ELSE " ") \o string[i]
            \o join_words(string, i + 1)

RECURSIVE split_whitespace(_, _, _)
RECURSIVE tokenize_loop(_, _, _)

\* program_spread.split_whitespace(): parentheses and double quotes stand
\* alone, blanks separate, neighbouring runs join into one word.
split_whitespace(program, i, word) ==
    LET flush == IF word = "" THEN <<>> ELSE <<word>>
    IN  IF i > Len(program) THEN flush
        ELSE IF program[i] = " "
        THEN flush \o split_whitespace(program, i + 1, "")
        ELSE IF program[i] \in {"(", ")", "\""}
        THEN flush \o <<program[i]>> \o split_whitespace(program, i + 1, "")
        ELSE split_whitespace(program, i + 1, word \o program[i])

\* The body of for token in split_whitespace { ... }: st holds tokens,
\* in_quote, quote_level, in_string and string.
tokenize_step(st, token) ==
    LET push(ts) == [st EXCEPT !.tokens = st.tokens \o ts]
    IN  IF ~st.in_string
        THEN CASE token = "(" ->
                    [push(<<OpenParen>>) EXCEPT !.quote_level =
                        IF st.in_quote THEN @ + 1 ELSE @]
               [] token = ")" ->
                    IF ~st.in_quote THEN push(<<CloseParen>>)
                    ELSE IF st.quote_level - 1 = 0
                    THEN [push(<<CloseParen, CloseParen>>)
                            EXCEPT !.quote_level = 0]
                    ELSE [push(<<CloseParen>>)
                            EXCEPT !.quote_level = @ - 1]
               [] token = "'" ->
                    [push(<<OpenParen, NonParen("quote")>>)
                        EXCEPT !.in_quote = TRUE]
               [] token = "\"" ->
                    [st EXCEPT !.in_string = TRUE, !.string = <<>>]
               [] OTHER -> push(<<NonParen(token)>>)
        ELSE IF token = "\""
        THEN [push(<<[s |-> join_words(st.string, 1), t |-> "String"]>>)
                EXCEPT !.in_string = FALSE, !.string = <<>>]
        ELSE [st EXCEPT !.string = Append(@, token)]

\* The loop, one word after the other.
tokenize_loop(words, i, st) ==
    IF i > Len(words) THEN st.tokens
    ELSE Bind(tokenize_step(st, words[i]),
              LAMBDA next : tokenize_loop(words, i + 1, next))

tokenize(program) ==
    tokenize_loop(split_whitespace(program, 1, ""), 1,
                  [tokens |-> <<>>, in_quote |-> FALSE, quote_level |-> 0,
                   in_string |-> FALSE, string |-> <<>>])

MaxTokens == 4
TokenSeqs ==
    LET Tokens == {OpenParen, CloseParen, NonParen("a"), NonParen("1")}
    IN  UNION {[1..n -> Tokens] : n \in 0..MaxTokens}

\* main.rs: one line is read, tokenized and parsed.
Parse ==
    /\ last.kind = "new"
    /\ \E tokens \in TokenSeqs :
          /\ env' = env
          /\ LET r == parse(tokens)
             IN  last' = [k |-> r.k, v |-> r.v, d |-> 0, tr |-> <<>>,
                          kind |-> "parse", line |-> tokens, before |-> env]

\* What Display for Value writes for an Int, a Float, a Bool or a flat List
\* of them, as the pieces of a program text.
value_pieces(val) ==
    IF val.t # "List" THEN <<value_fmt(val)>>
    ELSE <<"(">>
            \o [i \in 1..(2 * Len(val.l) - 1) |->
                    IF i % 2 = 1 THEN value_fmt(val.l[(i + 1) \div 2]) ELSE " "]
            \o <<")">>

\* A Value is rendered, the text is tokenized and parsed, and the quoted
\* form of the Node is evaluated.
RoundTrip ==
    \E n \in 0..MaxArgs :
        \E vals \in [1..n -> {VInt(-2), VInt(1), VInt(10), VBool(TRUE),
                              VBool(FALSE), VFloat(<<1, 2>>), VFloat(<<2, 1>>),
                              VFloat(<<-1, 4>>)}] :
            \E val \in {VList(vals)} \cup {vals[i] : i \in 1..n} :
                /\ last.kind = "new"
                /\ \E p \in {parse(tokenize(value_pieces(val)))} :
                      \E r \in {IF p.k = "Ok"
                                 THEN eval(Call1("quote", p.v), env, MaxStack)
                                 ELSE [env |-> env, k |-> p.k, v |-> p.v,
                                       d |-> 0, tr |-> <<>>]} :
                          /\ env' = r.env
                          /\ last' = [k |-> r.k, v |-> r.v, d |-> r.d,
                                      tr |-> r.tr, kind |-> "roundtrip",
                                      line |-> val, before |-> env]

\* tokenize on its own: texts of parentheses, apostrophes and words.
Tokenize ==
    \E n \in 0..(MaxTokens + 1) :
        \E program \in [1..n -> {"(", ")", "'", "a"}] :
            /\ last.kind = "new"
            /\ env' = env
            /\ last' = [k |-> "Ok", v |-> tokenize(program), d |-> 0,
                        tr |-> <<>>, kind |-> "tokenize", line |-> program,
                        before |-> env]

\* A line of one word is tokenized and parsed: numbers, complex constants,
\* booleans and symbols.
Atom ==
    \E val \in {"1+2i", "3-i", "+i", "-2i", "0.5+0.5i", "2+.i", "1", "-2",
                 "0.5", "1e1", "#t", "a", "i"} :
        \E r \in {parse(tokenize(<<val>>))} :
            /\ last.kind = "new"
            /\ env' = env
            /\ last' = [k |-> r.k, v |-> r.v, d |-> 0, tr |-> <<>>,
                        kind |-> "atom", line |-> val, before |-> env]

NextParse ==
    \/ Prompt
    \/ Parse
    \/ RoundTrip
    \/ Tokenize
    \/ Atom

SpecParse == Init /\ [][NextParse]_vars

\* Opening minus closing parentheses among the first i tokens.
Depth(tokens, i) ==
    Cardinality({j \in 1..i : tokens[j].t = "OpenParen"})
        - Cardinality({j \in 1..i : tokens[j].t = "CloseParen"})

ClosesAtTop(tokens) == \E i \in 1..Len(tokens) : Depth(tokens, i) < 0

\* The tokens a Node is made of, parentheses included.
RECURSIVE TokenCount(_)
RECURSIVE TokenCountAll(_, _)
TokenCountAll(nodes, i) ==
    IF i > Len(nodes) THEN 0
    ELSE TokenCount(nodes[i]) + TokenCountAll(nodes, i + 1)
TokenCount(node) ==
    IF node.t = "NList" THEN 2 + TokenCountAll(node.l, 1) ELSE 1

\* C12: every token sequence with unbalanced parentheses is a ParseError:
\* 'unexpected close paren' when a CloseParen comes at depth 0, 'unexpected
\* end of input' when the tokens end at depth greater than 0.
C12_UnbalancedIsParseError ==
    last.kind = "parse"
        => /\ ClosesAtTop(last.line)
              => (last.k = "Err" /\ last.v = "Unexpected close paren")
           /\ (~ClosesAtTop(last.line)
                   /\ Depth(last.line, Len(last.line)) > 0)
              => (last.k = "Err" /\ last.v = "Unexected end of input")

C12_Witness ==
    /\ last.kind = "parse"
    /\ last.line = <<OpenParen, NonParen("a"), CloseParen, CloseParen>>
    /\ last.k = "Err"

\* The top-level forms of a balanced token sequence.
TopLevelForms(tokens) ==
    Cardinality({i \in 1..Len(tokens) :
                    /\ Depth(tokens, i - 1) = 0
                    /\ tokens[i].t # "CloseParen"})

\* C13: a balanced token sequence with exactly one top-level form parses
\* to one Node made of all the tokens, and one with any other number of
\* top-level forms (several, or none as for empty input) is a ParseError.
C13_OneTopLevelForm ==
    (last.kind = "parse" /\ ~ClosesAtTop(last.line)
        /\ Depth(last.line, Len(last.line)) = 0)
        => IF TopLevelForms(last.line) = 1
           THEN last.k = "Ok" /\ TokenCount(last.v) = Len(last.line)
           ELSE last.k = "Err"

\* C14: (define (f p...) body...) does what (define f (lambda (p...) body...))
\* does from the same environment: both return Void and leave f bound to the
\* same Lambda, whose parameters are p... .
C14_DefineSugarEquivalent ==
    last.kind = "sugar"
        => LET params == Tail(last.line.l[2].l)
               body == SubSeq(last.line.l, 3, Len(last.line.l))
               r == eval(DefineExplicit(params, body), last.before, MaxStack)
           IN  /\ last.k = "Ok" /\ last.v = Void
               /\ r.k = "Ok" /\ r.v = Void
               /\ r.env = env
               /\ get(env, "f").some
               /\ get(env, "f").v.t = "Lambda"
               /\ get(env, "f").v.params = params

\* The first decisive argument of (and a...) / (or a...): a literal #f for
\* and, #t for or, with only the other Bool literal before it; 0 if none.
FirstDecisive(line) ==
    LET decisive == NBool(line.l[1].s = "or")
        other == NBool(line.l[1].s = "and")
        args == Tail(line.l)
        Found == {i \in 1..Len(args) :
                    /\ args[i] = decisive
                    /\ \A j \in 1..(i - 1) : args[j] = other}
    IN  IF Found = {} THEN 0 ELSE CHOOSE i \in Found : TRUE

\* C15: and / or stop at the first decisive argument: the result is that
\* Bool, the arguments after it are never evaluated, and the environment is
\* as before.
C15_AndOrShortCircuit ==
    (last.kind = "andor" /\ FirstDecisive(last.line) > 0)
        => LET i == FirstDecisive(last.line)
           IN  /\ last.k = "Ok"
               /\ last.v = VBool(last.line.l[1].s = "or")
               /\ last.tr = <<last.line>> \o SubSeq(last.line.l, 1, i + 1)
               /\ env = last.before

\* (and #f (car (quote ()))) is Bool false although its second argument
\* alone is an error.
C15_Witness ==
    /\ last.kind = "andor"
    /\ last.line = Call2("and", NBool(FALSE),
                          Call1("car", Call1("quote", NList(<<>>))))
    /\ last.k = "Ok" /\ last.v = VBool(FALSE)
    /\ eval(last.line.l[3], last.before, MaxStack).k # "Ok"

\* C16: if with other than three arguments, or with a test whose value is
\* not a Bool, is an EvalError; otherwise the test is evaluated once, then
\* the chosen branch and nothing else, and the result is the chosen
\* branch's.
C16_IfContract ==
    /\ last.kind = "ifarity" => last.k = "Err"
    /\ (last.kind = "if" /\ ValueBefore(last.line.l[2]).k = "Ok")
          => LET test == ValueBefore(last.line.l[2])
                 chosen == IF IsBool(test.v, TRUE) THEN last.line.l[3]
                           ELSE last.line.l[4]
                 want == eval(chosen, test.env, MaxStack)
             IN  IF test.v.t # "Bool" THEN last.k = "Err"
                 ELSE /\ last.k = want.k
                      /\ last.k = "Ok" => last.v = want.v
                      /\ last.tr = <<last.line, Sym("if")>> \o test.tr \o want.tr

(***************************************************************************)
(* The arithmetic primitives on their own: (op a...) for +, -, * and /     *)
(* in a new interpreter.                                                   *)
(***************************************************************************)
Operands ==
    LET Operand == {NInt(-7), NInt(0), NInt(1), NInt(2), NBool(TRUE),
                    NBool(FALSE), NFloat(<<2, 1>>), NFloat(<<0, 1>>),
                    Call1("quote", Sym("a"))}
    IN  UNION {[1..n -> Operand] : n \in 0..(MaxArgs + 1)}

Arith ==
    /\ last.kind = "new"
    /\ \E op \in {"+", "-", "*", "/"}, args \in Operands :
          interpreter_eval("arith", Call(Sym(op), args))

NextArith == Prompt \/ Arith

SpecArith == Init /\ [][NextArith]_vars

\* The operands of the call last evaluated, as the values arithmetic takes
\* them for: a Bool counts as Int 1 or Int 0.
ArithOp == last.line.l[1].s
ArithArgs ==
    LET args == Tail(last.line.l)
    IN  [i \in 1..Len(args) |-> coerce(ValueBefore(args[i]).v)]
AllNumeric(vals) == \A i \in 1..Len(vals) : vals[i].t \in {"Int", "Float"}

\* C17: the result of +, -, * and / on Int / Bool operands is an Int, with
\* / truncating toward zero, and on Int / Bool / Float operands with at
\* least one Float it is a Float.
C17_NumericTower ==
    (last.kind = "arith" /\ last.k = "Ok" /\ AllNumeric(ArithArgs))
        => LET vals == ArithArgs
           IN  /\ last.v.t = IF \E i \in 1..Len(vals) : vals[i].t = "Float"
                             THEN "Float" ELSE "Int"
               /\ (ArithOp = "/" /\ Len(vals) = 2 /\ last.v.t = "Int")
                     => LET x == vals[1].n
                            y == vals[2].n
                            r == last.v.n
                        IN  /\ Abs(r) * Abs(y) <= Abs(x)
                            /\ Abs(x) < (Abs(r) + 1) * Abs(y)
                            /\ r * x * y >= 0

\* ((a1 op a2) op a3) ... op aN on values, by the match of sub and div.
RECURSIVE LeftFold(_, _, _)
LeftFold(op, acc, rest) ==
    IF Len(rest) = 0 \/ acc.k # "Ok" THEN acc
    ELSE LeftFold(op, num_match(op, acc.v, rest[1], last.before), Tail(rest))

IsZero(val) ==
    \/ val.t = "Int" /\ val.n = 0
    \/ val.t = "Float" /\ val.q = <<0, 1>>

\* C18: - and / with one or more numeric operands, no divisor being zero,
\* return a numeric value: the left-to-right fold of the operands when
\* there are two or more.
C18_SubDivAnyCount ==
    (/\ last.kind = "arith"
     /\ ArithOp \in {"-", "/"}
     /\ Len(ArithArgs) >= 1
     /\ AllNumeric(ArithArgs)
     /\ ArithOp = "/" => \A i \in 2..Len(ArithArgs) : ~IsZero(ArithArgs[i]))
        => /\ last.k = "Ok"
           /\ last.v.t \in {"Int", "Float"}
           /\ Len(ArithArgs) >= 2
                 => last.v = LeftFold(ArithOp, Ok(ArithArgs[1], last.before),
                                      Tail(ArithArgs)).v

\* The first fold step of (/ a1 ... aN) whose divisor is zero, when the
\* fold gets there: the divisors before it are numeric and not zero and,
\* unless it is the first step, the dividend a1 is numeric; 0 if none.
ZeroStep(vals) ==
    LET Found == {i \in 2..Len(vals) :
                    /\ IsZero(vals[i])
                    /\ \A j \in 2..(i - 1) :
                          vals[j].t \in {"Int", "Float"} /\ ~IsZero(vals[j])
                    /\ i > 2 => vals[1].t \in {"Int", "Float"}}
    IN  IF Found = {} THEN 0 ELSE CHOOSE i \in Found : TRUE

\* C19: / is the EvalError 'Invalid division by zero' whenever the divisor
\* of a fold step is Int 0 or Float 0.0, whatever the dividend.
C19_DivisionByZero ==
    (last.kind = "arith" /\ ArithOp = "/" /\ ZeroStep(ArithArgs) > 0)
        => last.k = "Err" /\ last.v = "Invalid division by zero"

\* (/ 2.0 1 0.0): a Float dividend and a zero divisor at the second step.
C19_Witness ==
    /\ last.kind = "arith"
    /\ last.line = Call3("/", NFloat(<<2, 1>>), NInt(1), NFloat(<<0, 1>>))
    /\ ZeroStep(ArithArgs) = 3
    /\ last.k = "Err"

\* val is the quoted structure of node: a Literal holding the atom's text,
\* or a List of the quoted structures of the list's nodes.
RECURSIVE IsQuoted(_, _)
IsQuoted(val, node) ==
    IF node.t = "NList"
    THEN /\ val.t = "List"
         /\ Len(val.l) = Len(node.l)
         /\ \A i \in 1..Len(node.l) : IsQuoted(val.l[i], node.l[i])
    ELSE val = VLiteral(node_fmt(node))

\* C20: (quote n) is the quoted structure of n and renders as the text of
\* n; no part of n is evaluated and the environment is as before.
C20_QuoteStructure ==
    last.kind = "quote"
        => /\ last.k = "Ok"
           /\ IsQuoted(last.v, last.line.l[2])
           /\ value_fmt(last.v) = node_fmt(last.line.l[2])
           /\ last.tr = <<last.line, Sym("quote")>>
           /\ env = last.before

\* (quote (a b c)) is a List of three Literals and renders as (a b c).
C20_Witness ==
    /\ last.kind = "quote"
    /\ last.line = Call1("quote", NList(<<Sym("a"), Sym("b"), Sym("c")>>))
    /\ last.v = VList(<<VLiteral("a"), VLiteral("b"), VLiteral("c")>>)
    /\ value_fmt(last.v) = "(a b c)"

(***************************************************************************)
(* Applications on their own, in a new interpreter: map, lambda calls      *)
(* whose arguments have effects, and begin blocks with a failing form.     *)
(***************************************************************************)

\* (map f (list a...)): f a primitive or a lambda expression.
Map ==
    \E f \in {Sym("+"), Sym("-"), Sym("car"), Sym("not"),
               LambdaExpr(<<Sym("x")>>, Call2("+", Sym("x"), NInt(1))),
               LambdaExpr(<<Sym("x")>>, Call1("car", Sym("x")))},
       n \in 0..(MaxArgs + 1) :
        \E elems \in [1..n -> {NInt(1), NInt(2), NBool(TRUE),
                               Call1("list", NInt(1))}] :
            interpreter_eval("map", Call2("map", f, Call(Sym("list"), elems)))

\* ((lambda (x) body) arg): the parameter occurs in the body zero, one or two
\* times, and the argument is a call or a definition.
ArgOnce ==
    \E body \in {NInt(1), Sym("x"), Call2("+", Sym("x"), Sym("x")),
                  Call2("begin", Sym("x"), NInt(2))},
       arg \in {Call2("+", NInt(1), NInt(1)), Call2("define", Sym("y"), NInt(1)),
                Call1("car", Call2("list", NInt(1), NInt(2))),
                Call1("car", NInt(1))} :
        interpreter_eval("argonce", Call(LambdaExpr(<<Sym("x")>>, body), <<arg>>))

\* inline_lambda_nodes on its own: a body, the parameters of the lambda being
\* called and the argument Nodes of the call.
Inline ==
    /\ last.kind = "new"
    /\ \E body \in {Sym("x"), Sym("y"), Sym("z"), NInt(1), NBool(TRUE),
                     NList(<<>>),
                     Call2("+", Sym("x"), Sym("y")),
                     Call2("+", Call2("+", Sym("x"), NInt(1)),
                                Call1("car", Call2("list", Sym("x"), Sym("z")))),
                     LambdaExpr(<<Sym("x")>>, Sym("x")),
                     LambdaExpr(<<Sym("y")>>, Call2("+", Sym("x"), Sym("y"))),
                     LambdaExpr(<<Sym("z")>>, Call2("+", Sym("x"), Sym("z"))),
                     Call(LambdaExpr(<<Sym("x")>>, Call2("+", Sym("x"), NInt(1))),
                          <<Sym("x")>>)},
          n \in 1..MaxArgs :
           \E values \in [1..n -> {NInt(1), NInt(2), Sym("z"),
                                   Call2("+", Sym("y"), NInt(1))}] :
               /\ env' = env
               /\ last' = [k |-> "Ok",
                           v |-> NodeWrapper(inline_lambda_nodes(body,
                                     SubSeq(<<Sym("x"), Sym("y")>>, 1, n), values)),
                           d |-> 0, tr |-> <<>>, kind |-> "inline",
                           line |-> NList(<<body, NList(SubSeq(<<Sym("x"), Sym("y")>>, 1, n)),
                                            NList(values)>>),
                           before |-> env]

\* (begin form...): forms that succeed and forms that are EvalErrors.
BeginError ==
    \E n \in 1..(MaxArgs + 1) :
        \E forms \in [1..n -> {NInt(1), Call2("+", NInt(1), NInt(1)),
                               Call1("car", NInt(1)), Sym("zzz")}] :
            interpreter_eval("beginerror", Call(Sym("begin"), forms))

NextApply ==
    \/ Prompt
    \/ Map
    \/ ArgOnce
    \/ Inline
    \/ BeginError

SpecApply == Init /\ [][NextApply]_vars

\* f applied to each element of the list (map f xs) was evaluated on.
MapApplications ==
    LET xs == ValueBefore(last.line.l[3]).v.l
    IN  [i \in 1..Len(xs) |->
            ValueBefore(Call(last.line.l[2], <<ValueWrapper(xs[i])>>))]

\* C21: (map f xs) with f a Lambda is the List of f applied to each element,
\* or the EvalError of the first failing application; with f a primitive
\* Function it is the List of the results of the applications that succeed.
C21_MapContract ==
    last.kind = "map"
        => LET apps == MapApplications
               failing == {i \in 1..Len(apps) : apps[i].k # "Ok"}
               oks == SelectSeq(apps, LAMBDA r : r.k = "Ok")
           IN  IF ValueBefore(last.line.l[2]).v.t = "Function"
               THEN /\ last.k = "Ok"
                    /\ last.v = VList([i \in 1..Len(oks) |-> oks[i].v])
               ELSE IF failing = {}
               THEN /\ last.k = "Ok"
                    /\ last.v = VList([i \in 1..Len(apps) |-> apps[i].v])
               ELSE LET first == CHOOSE i \in failing :
                                    \A j \in failing : i <= j
                    IN  last.k = "Err" /\ last.v = apps[first].v

\* How many times node was handed to eval_node during the last evaluation.
Evaluations(node) ==
    Cardinality({i \in 1..Len(last.tr) :
                    last.tr[i].t = node.t /\ last.tr[i] = node})

\* C25: in a lambda call that returns, each argument expression is evaluated
\* exactly once: the body sees the argument's value, not its expression.
C25_ArgumentEvaluatedOnce ==
    (last.kind = "argonce" /\ last.k \in {"Ok", "Err"})
        => Evaluations(last.line.l[2]) = 1

\* node with every free occurrence of a parameter replaced by its argument:
\* bound holds the names declared by the lambda forms around node.
RECURSIVE SubstituteFree(_, _, _, _)
SubstituteFree(node, params, values, bound) ==
    CASE node.t = "NSymbol" ->
            LET hits == {i \in 1..Len(params) : params[i] = node}
            IN  IF hits = {} \/ node.s \in bound THEN node
                ELSE values[CHOOSE i \in hits : \A j \in hits : i <= j]
      [] node.t = "NList" ->
            IF Len(node.l) = 3 /\ node.l[1] = Sym("lambda") /\ node.l[2].t = "NList"
            THEN LET declared == {node.l[2].l[i].s : i \in 1..Len(node.l[2].l)}
                 IN  NList(<<node.l[1], node.l[2],
                             SubstituteFree(node.l[3], params, values,
                                            bound \cup declared)>>)
            ELSE NList([j \in 1..Len(node.l) |->
                           SubstituteFree(node.l[j], params, values, bound)])
      [] OTHER -> node

\* C26: inline_lambda_nodes replaces the free occurrences of the parameters
\* only; an occurrence bound by a nested lambda that declares the name, that
\* lambda's parameter list, the other symbols, the other atoms and the
\* nesting of lists are unchanged.
C26_SubstitutionFreeOnly ==
    last.kind = "inline"
        => last.v.w = SubstituteFree(last.line.l[1], last.line.l[2].l,
                                     last.line.l[3].l, {})

\* C27: a begin with a form that is an EvalError is an EvalError, the error
\* of its first failing form.
C27_BeginKeepsError ==
    last.kind = "beginerror"
        => LET forms == Tail(last.line.l)
               failing == {i \in 1..Len(forms) :
                              ValueBefore(forms[i]).k = "Err"}
           IN  failing # {} => last.k = "Err"

(***************************************************************************)
(* main.rs: repl.  Each line is tokenized, parsed and, when it parses,     *)
(* evaluated by the one Interpreter of the loop; a ParseError is printed   *)
(* like an EvalError and the loop reads the next line.                     *)
(***************************************************************************)
ReplLines ==
    LET Form(head, a, b) == <<"(", head, " ">> \o a \o <<" ">> \o b \o <<")">>
    IN  {Form("define", <<"x">>, <<"1">>),
         Form("define", <<"x">>, <<"10">>),
         Form("define", <<"y">>, <<"x">>),
         Form("set!", <<"y">>, <<"-2">>),
         Form("define", <<"+">>, <<"1">>),
         Form("define", <<"if">>, <<"x">>),
         Form("+", <<"x">>, <<"1">>),
         Form("and", Form("define", <<"x">>, <<"-2">>), <<"#t">>),
         Form("cons", <<"y">>, <<"x">>),
         <<"x">>,
         <<"zzz", " ", "1">>,
         <<"(", "define", " ", "x">>,
         <<"(", "define", " ", "y", " ", "1", ")", ")">>}

Repl ==
    \E line \in ReplLines :
        /\ last.kind = "new"
        /\ \E p \in {parse(tokenize(line))} :
              \E r \in {IF p.k = "Ok" THEN eval(p.v, env, MaxStack)
                         ELSE [env |-> env, k |-> p.k, v |-> p.v, d |-> 0,
                               tr |-> <<>>]} :
                  /\ env' = r.env
                  /\ last' = [k |-> r.k, v |-> r.v, d |-> r.d, tr |-> r.tr,
                              kind |-> "repl", line |-> line, before |-> env]

NextRepl == Prompt \/ Repl

SpecRepl == Init /\ [][NextRepl]_vars

\* C22: every name the root environment binds at construction stays bound
\* to the value it had then.
C22_PrimitivesImmutable ==
    \A name \in DOMAIN Environment_new[1] :
        get(env, name) = Some(Environment_new[1][name])

\* C23: a line that ends in a ParseError or an EvalError leaves the
\* environment as it was before the line.
C23_FailedLineKeepsEnvironment ==
    (last.kind = "repl" /\ last.k = "Err") => env = last.before

\* C24 as stated: the round trip of an Int, a Bool, a Float or a flat List
\* of them yields a Value equal to the one rendered.
C24_RoundTripEqualValue ==
    last.kind = "roundtrip"
        => /\ last.k = "Ok"
           /\ last.v.t = last.line.t
           /\ last.v = last.line

\* C24, amended: the round trip yields the quoted structure of the Value,
\* a Literal for an atom and a List of Literals for a List, whose rendering
\* equals the rendering of the Value.
C24_RoundTripEqualText ==
    last.kind = "roundtrip"
        => /\ last.k = "Ok"
           /\ value_fmt(last.v) = value_fmt(last.line)
           /\ IF last.line.t = "List"
              THEN /\ last.v.t = "List"
                   /\ Len(last.v.l) = Len(last.line.l)
                   /\ \A i \in 1..Len(last.v.l) :
                         last.v.l[i] = VLiteral(value_fmt(last.line.l[i]))
              ELSE last.v = VLiteral(value_fmt(last.line))

\* The List (#t 0.5) comes back as the List of the Literals #t and 0.5.
C24_Witness ==
    /\ last.kind = "roundtrip"
    /\ last.line = VList(<<VBool(TRUE), VFloat(<<1, 2>>)>>)
    /\ last.v = VList(<<VLiteral("#t"), VLiteral("0.5")>>)

\* The words of the tokenized text, and those equal to word.
Words == split_whitespace(last.line, 1, "")
WordsEqual(word) == {i \in 1..Len(Words) : Words[i] = word}

\* The parentheses of the text are balanced.
BalancedText ==
    LET depth(i) == Cardinality({j \in 1..i : Words[j] = "("})
                        - Cardinality({j \in 1..i : Words[j] = ")"})
    IN  /\ \A i \in 1..Len(Words) : depth(i) >= 0
        /\ depth(Len(Words)) = 0

\* C28: for a balanced text whose apostrophes each stand before a list, the
\* tokens hold one CloseParen per ")" of the text and exactly one more per
\* quoted list, and no more for the other lists: the tokens are balanced.
C28_QuoteClosedOnce ==
    (/\ last.kind = "tokenize"
     /\ BalancedText
     /\ \A i \in WordsEqual("'") : i < Len(Words) /\ Words[i + 1] = "(")
        => /\ Cardinality({j \in 1..Len(last.v) : last.v[j] = CloseParen})
                = Cardinality(WordsEqual(")")) + Cardinality(WordsEqual("'"))
           /\ Depth(last.v, Len(last.v)) = 0

\* C29: a word <real>+-<imag>i parses to the Complex of its parts, with the
\* real part 0 when it is left out and the imaginary part 1 or -1 for a
\* bare sign; it is never a ParseError.
C29_ComplexLiteral ==
    LET Expected == ("1+2i" :> <<(<<1, 1>>), (<<2, 1>>)>>)
                        @@ ("3-i" :> <<(<<3, 1>>), (<<-1, 1>>)>>)
                        @@ ("+i" :> <<(<<0, 1>>), (<<1, 1>>)>>)
                        @@ ("-2i" :> <<(<<0, 1>>), (<<-2, 1>>)>>)
                        @@ ("0.5+0.5i" :> <<(<<1, 2>>), (<<1, 2>>)>>)
    IN  (last.kind = "atom" /\ last.line \in DOMAIN Expected)
            => /\ last.k = "Ok"
               /\ last.v = [t |-> "NComplex", re |-> Expected[last.line][1],
                            im |-> Expected[last.line][2]]

(***************************************************************************)
(* brainfuck/src/main.rs: the byte-tape interpreter, a program of its own. *)
(* Its state is held in the same two variables: env is the Program that    *)
(* Program::new built (code, loop_map, stdin) and last is the state of     *)
(* Program::run (pc, spc and the Tape).  Positions count from 0 as in the  *)
(* source; a char is its code point.  The guards keep the cells and the    *)
(* tape within MaxCell and MaxTape, far from the width of an isize.        *)
(***************************************************************************)
MaxSource == 4
MaxCell == 3
MaxTape == 3

\* for c in source.chars() { ... code.push(c); pc += 1; }
RECURSIVE Program_new_loop(_, _, _, _, _, _)
Program_new_loop(source, i, code, loop_map, leftstack, pc) ==
    IF i > Len(source) THEN [code |-> code, loop_map |-> loop_map]
    ELSE LET c == source[i]
         IN  CASE c \in {"+", "-", ".", ",", "<", ">"} ->
                    Program_new_loop(source, i + 1, Append(code, c), loop_map,
                                     leftstack, pc + 1)
               [] c = "[" ->
                    Program_new_loop(source, i + 1, Append(code, c), loop_map,
                                     Append(leftstack, pc), pc + 1)
               [] c = "]" ->
                    IF leftstack # <<>>
                    THEN LET left == leftstack[Len(leftstack)]
                         IN  Program_new_loop(source, i + 1, Append(code, c),
                                 (pc :> left) @@ (left :> pc) @@ loop_map,
                                 SubSeq(leftstack, 1, Len(leftstack) - 1),
                                 pc + 1)
                    ELSE Program_new_loop(source, i + 1, Append(code, c),
                                          loop_map, leftstack, pc + 1)
               [] OTHER ->
                    Program_new_loop(source, i + 1, code, loop_map, leftstack,
                                     pc)

Program_new(source, stdin) ==
    LET p == Program_new_loop(source, 1, <<>>, <<>>, <<>>, 0)
    IN  [code |-> p.code, loop_map |-> p.loop_map, stdin |-> stdin]

\* Tape { pos: 0, tape: vec![0] }
Tape_new == [pos |-> 0, tape |-> <<0>>]

Tape_get(t) == t.tape[t.pos + 1]

Tape_put(t, val) == [t EXCEPT !.tape[t.pos + 1] = val]

Tape_adv(t) ==
    LET pos == t.pos + 1
    IN  [pos |-> pos,
         tape |-> IF Len(t.tape) <= pos THEN Append(t.tape, 0) ELSE t.tape]

Tape_dev(t) == IF t.pos > 0 THEN [t EXCEPT !.pos = @ - 1] ELSE t

\* Program::new(source, stdin) and the first lines of run.
InitTape ==
    \E n \in 0..MaxSource :
        \E source \in [1..n -> {"+", "-", ">", "<", "[", "]", ",", ".", "x"}],
           stdin \in {<<>>, <<1>>} :
            /\ env = Program_new(source, stdin)
            /\ last = [k |-> "Run", pc |-> 0, tape |-> Tape_new, spc |-> 0]

\* One turn of the while loop of run.  self.loop_map[&pc] panics when pc is
\* not a key of the map.
Step ==
    /\ last.k = "Run"
    /\ last.pc < Len(env.code)
    /\ LET c == env.code[last.pc + 1]
           tape == last.tape
           jump == (c = "[" /\ Tape_get(tape) = 0)
                       \/ (c = "]" /\ Tape_get(tape) # 0)
           next == CASE c = "+" -> Tape_put(tape, Tape_get(tape) + 1)
                     [] c = "-" -> Tape_put(tape, Tape_get(tape) - 1)
                     [] c = ">" -> Tape_adv(tape)
                     [] c = "<" -> Tape_dev(tape)
                     [] c = "," /\ last.spc < Len(env.stdin) ->
                            Tape_put(tape, env.stdin[last.spc + 1])
                     [] OTHER -> tape
       IN  /\ Tape_get(next) \in (-MaxCell)..MaxCell
           /\ Len(next.tape) <= MaxTape
           /\ env' = env
           /\ IF jump /\ last.pc \notin DOMAIN env.loop_map
              THEN last' = [last EXCEPT !.k = "Panic"]
              ELSE last' = [last EXCEPT
                              !.pc = (IF jump THEN env.loop_map[last.pc]
                                      ELSE last.pc) + 1,
                              !.spc = IF c = "," /\ last.spc < Len(env.stdin)
                                      THEN @ + 1 ELSE @,
                              !.tape = next]

\* while pc < len is false: run returns.
Exit ==
    /\ last.k = "Run"
    /\ last.pc >= Len(env.code)
    /\ env' = env
    /\ last' = [last EXCEPT !.k = "Done"]

NextTape ==
    \/ Step
    \/ Exit

SpecTape == InitTape /\ [][NextTape]_vars

\* code[i] is a "[" and code[j] the "]" that closes it (positions from 0).
Matching(code, i, j) ==
    LET depth(m) == Cardinality({x \in (i + 1)..m : code[x] = "["})
                        - Cardinality({x \in (i + 1)..m : code[x] = "]"})
    IN  /\ i < j
        /\ code[i + 1] = "["
        /\ code[j + 1] = "]"
        /\ depth(j + 1) = 0
        /\ \A m \in (i + 1)..j : depth(m) > 0

\* run is at a bracket and about to jump.
AtJump ==
    /\ last.k = "Run"
    /\ last.pc < Len(env.code)
    /\ \/ env.code[last.pc + 1] = "[" /\ Tape_get(last.tape) = 0
       \/ env.code[last.pc + 1] = "]" /\ Tape_get(last.tape) # 0

\* C30: whatever the program text, a bracket at which run jumps is a key of
\* loop_map and the jump lands on its matching bracket; run never fails on a
\* missing key, and the tape pointer stays inside the tape.
C30_JumpsAreMapped ==
    /\ last.k # "Panic"
    /\ last.tape.pos < Len(last.tape.tape)
    /\ AtJump => /\ last.pc \in DOMAIN env.loop_map
                 /\ \/ Matching(env.code, last.pc, env.loop_map[last.pc])
                    \/ Matching(env.code, env.loop_map[last.pc], last.pc)
====
